---- MODULE Spec2Model ----
(***************************************************************************)
(* SVGIZE (src/src/main.rs): greedy stamping of fragment shapes onto a     *)
(* canvas until a similarity / shape-count goal is met, followed by the    *)
(* export of the placement history as an SVG document.                     *)
(*                                                                         *)
(* Scores are f64 values in the source.  Here a quantized score is the     *)
(* integer n of millionths it was floored to (floor(score * 1e6) / 1e6 is  *)
(* the f64 nearest to n / 1e6), and a raw score is an integer of tenths of *)
(* millionths, so that comparisons of scores are comparisons of integers.  *)
(* An image is a record [w, h, px] with px a                               *)
(* function from pixel coordinates to a colour; one colour channel stands  *)
(* for the three RGB channels, and every fragment is a fully opaque        *)
(* square, so that a stamp paints its centred size x size region.          *)
(***************************************************************************)
EXTENDS Integers, Sequences, FiniteSets, TLC

VARIABLES
    args,          \* the parsed command line (struct Args)
    source_image,  \* the decoded input file, already at comparison size
    images,        \* the fragment library: src_svg of each fragment image
    pc,            \* position in main
    input_image,   \* the target raster
    avgcolor,      \* its average colour
    dest_image,    \* the canvas
    scorer,        \* image_compare's answers so far: canvas -> raw score
    curr_score,
    success,
    failure,
    consec_fails,
    placed,        \* Vec<ImageSetting>
    last,          \* the latest round: the score and canvas it started
                   \* from, its candidates, their scores, the winner's index
    svg_cache,     \* HashMap<PathBuf, String>
    output,        \* the elements appended to the output string
    next_img,      \* position of the export loop in placed
    written,       \* files written by main
    sz             \* the sizes of a call of gen_rand_im: the draws, the
                   \* size, and the size_rotated and paste_offset computed

vars == << args, source_image, images, pc, input_image, avgcolor, dest_image, scorer,
           curr_score, success, failure, consec_fails, placed, last,
           svg_cache, output, next_img, written, sz >>

engine_vars == << args, source_image, images, pc, input_image, avgcolor, dest_image,
                  scorer, curr_score, success, failure, consec_fails, placed,
                  last, svg_cache, output, next_img, written >>

-----------------------------------------------------------------------------
(* Bounds of the model *)

MaxShapes == 2

MaxFailmax == 2

MaxSize == 5800

MaxPlaced == 3

MaxDim == 3

MaxBatch == 3

(* Program constants *)

ScoreUnit == 1000000

InitUnit == 10000

PercentUnit == 100

SizeDraws == 4

F32Mantissa == 24

-----------------------------------------------------------------------------
(* Inputs *)

MkImage(w, h, rows) ==
    [w |-> w, h |-> h,
     px |-> [p \in (0..(w-1)) \X (0..(h-1)) |-> rows[p[2]+1][p[1]+1]]]

NoImage == [w |-> 0, h |-> 0, px |-> << >>]

\* The input rasters: a flat one, one whose average colour is none of its
\* colours, and one whose average colour is the colour of a pixel.
Sources ==
    { MkImage(2, 1, << <<2, 2>> >>),
      MkImage(1, 2, << <<2>>, <<0>> >>),
      MkImage(2, 1, << <<2, 1>> >>) }

\* --matchscore, an Option<f64>: << >> is None, <<p>> is Some(p) percent
MatchScores == {<< >>, <<50>>, <<100>>}

ImgCnts == {1, 2}

\* The fragment libraries found in images_png: one fragment, or two
OneFragment == << [src_svg |-> "images/a.svg"] >>

TwoFragments == << [src_svg |-> "images/a.svg"],
                   [src_svg |-> "images/b.svg"] >>

Libraries == {OneFragment, TwoFragments}

\* The rotations drawn; a quarter turn maps the square silhouette onto
\* itself, and one value stands for them.
Rotations == {0}

\* Resolution of a raw similarity score: tenths of a millionth.
RawUnit == 10 * ScoreUnit

\* Raw similarity scores (in 1/RawUnit) that the comparison may return for a
\* canvas that differs from the target; 1.0 is RawUnit.
RawLevels == {4999503, 5000017, 5000021}

ArgsSet ==
    [matchscore : MatchScores, shapes : 0..MaxShapes,
     failmax : 0..MaxFailmax, imgcnt : ImgCnts]

-----------------------------------------------------------------------------
(* Arithmetic helpers *)

RECURSIVE Pow2(_)
Pow2(k) == IF k = 0 THEN 1 ELSE 2 * Pow2(k - 1)

\* position of the highest set bit of n >= 1
RECURSIVE Msb(_)
Msb(n) == IF n < 2 THEN 0 ELSE 1 + Msb(n \div 2)

Min(S) == CHOOSE x \in S : \A y \in S : x <= y

Max2(a, b) == IF a >= b THEN a ELSE b

\* floor(sqrt(x)), by bisection: lo * lo <= x < hi * hi
RECURSIVE IsqrtIn(_, _, _)
IsqrtIn(x, lo, hi) ==
    IF hi - lo <= 1 THEN lo
    ELSE LET mid == (lo + hi) \div 2
         IN IF mid * mid <= x THEN IsqrtIn(x, mid, hi) ELSE IsqrtIn(x, lo, mid)

Isqrt(x) == IsqrtIn(x, 0, 46340)

\* `n as f32`, and the rounding of an f32 product whose exact value is the
\* integer n: nearest value with a 24-bit mantissa, ties to even.
F32Round(n) ==
    IF n < Pow2(F32Mantissa) THEN n
    ELSE LET q   == Pow2(Msb(n) - (F32Mantissa - 1))
             m   == n \div q
             rem == n - m * q
         IN IF 2 * rem < q THEN m * q
            ELSE IF 2 * rem > q THEN (m + 1) * q
            ELSE IF m % 2 = 0 THEN m * q ELSE (m + 1) * q

\* `x.sqrt().ceil()` in f32, for an integer-valued f32 x >= 1 below 2^31.
\* With R = floor(sqrt(x)) and D = x - R*R > 0 the correctly rounded f32
\* square root is R itself exactly when sqrt(x) < R + ulp(R)/2, that is when
\* D * 2^(23 - msb(R)) <= R; otherwise it lies in (R, R+1] and ceils to R+1.
F32SqrtCeil(x) ==
    LET R == Isqrt(x)
        D == x - R * R
    IN IF D = 0 THEN R
       ELSE IF D * Pow2((F32Mantissa - 1) - Msb(R)) <= R THEN R
       ELSE R + 1

-----------------------------------------------------------------------------
(* gen_rand_im *)

\* RandSize without lines 136-138: the minimum of the draws as it is
RandSize_NoRaise(draws) == Min({draws[i] : i \in DOMAIN draws})

\* line 135-138: the minimum of the draws, raised to 1 when it is 0
RandSize(draws) ==
    LET m == Min({draws[i] : i \in DOMAIN draws})
    IN IF m < 1 THEN m + 1 ELSE m

\* line 139-142: (size as f32 * size as f32 * 2.0).sqrt().ceil() as u32,
\* then the parity adjustment
RandSizeRotated(rand_size) ==
    LET r == F32SqrtCeil(2 * F32Round(F32Round(rand_size) * F32Round(rand_size)))
    IN IF r % 2 # rand_size % 2 THEN r + 1 ELSE r

\* (n as f32 / 2.0).floor(): the halving of an f32 is exact
HalfFloor(n) == F32Round(n) \div 2

\* PasteOffset with the half of rand_size_rotated rounded up
PasteOffset_Ceil(rand_size, rand_size_rotated) ==
    HalfFloor(rand_size_rotated + 1) - HalfFloor(rand_size)

\* line 146
PasteOffset(rand_size, rand_size_rotated) ==
    HalfFloor(rand_size_rotated) - HalfFloor(rand_size)

\* The value of the closure over the target raster and the library for one
\* outcome of its random draws, rand_size being the value of line 135-138.  im_index counts from 1 here (from 0 in
\* the source).  The stamp `im` is a
\* side x side raster of colour `color` that is opaque on the size x size
\* square at offset `off` and transparent elsewhere.
GenRandImOn(target, library, im_index, rand_center_x, rand_center_y, rand_size, rand_rot) ==
    LET rand_size_rotated == RandSizeRotated(rand_size)
        pos_color == target.px[<<rand_center_x, rand_center_y>>]
        paste_offset == PasteOffset(rand_size, rand_size_rotated)
    IN [ im |-> [side |-> rand_size_rotated, off |-> paste_offset,
                 size |-> rand_size, color |-> pos_color],
         topleft_x_pos |-> rand_center_x - HalfFloor(rand_size_rotated),
         topleft_y_pos |-> rand_center_y - HalfFloor(rand_size_rotated),
         settings |-> [ rotation |-> rand_rot,
                        size |-> rand_size,
                        color |-> pos_color,
                        center_x |-> rand_center_x,
                        center_y |-> rand_center_y,
                        src_svg |-> library[im_index].src_svg ] ]

\* line 135-138: every value rand_size can take on a w x h raster
RandSizes(w, h) ==
    { RandSize(d) : d \in [1..SizeDraws -> 0..(Max2(w, h) - 1)] }

\* The closure as main builds it, over input_image and images
GenRandIm(im_index, rand_center_x, rand_center_y, rand_size, rand_rot) ==
    GenRandImOn(input_image, images, im_index, rand_center_x, rand_center_y,
                rand_size, rand_rot)

\* Everything one call of gen_rand_im can return over a target raster
CandidatesOn(target, library) ==
    { GenRandImOn(target, library, i, x, y, s, r) :
         i \in 1..Len(library),
         x \in 0..(target.w - 1),
         y \in 0..(target.h - 1),
         s \in RandSizes(target.w, target.h),
         r \in Rotations }

\* the same, tabulated for the input rasters and the libraries
CandidateTable ==
    [target \in Sources, library \in Libraries |-> CandidatesOn(target, library)]

\* Everything one call of gen_rand_im can return.
Candidates == CandidateTable[input_image, images]

\* Overlay without the offset of the silhouette in the stamp buffer: the
\* opaque square is taken to start at the buffer's top left corner
Overlay_NoOffset(bottom, top) ==
    LET x0 == top.topleft_x_pos
        y0 == top.topleft_y_pos
        covered(p) == /\ x0 <= p[1] /\ p[1] < x0 + top.im.size
                      /\ y0 <= p[2] /\ p[2] < y0 + top.im.size
    IN [bottom EXCEPT !.px =
            [p \in DOMAIN bottom.px |->
                IF covered(p) THEN top.im.color ELSE bottom.px[p]]]

\* imageops::overlay(bottom, top.im, top.topleft_x_pos, top.topleft_y_pos)
Overlay(bottom, top) ==
    LET x0 == top.topleft_x_pos + top.im.off
        y0 == top.topleft_y_pos + top.im.off
        covered(p) == /\ x0 <= p[1] /\ p[1] < x0 + top.im.size
                      /\ y0 <= p[2] /\ p[2] < y0 + top.im.size
    IN [bottom EXCEPT !.px =
            [p \in DOMAIN bottom.px |->
                IF covered(p) THEN top.im.color ELSE bottom.px[p]]]

-----------------------------------------------------------------------------
(* Scores *)

\* (score * unit).floor() / unit, in millionths, of a raw score in 1/RawUnit
Quantize(raw, unit) == (raw \div (RawUnit \div unit)) * (ScoreUnit \div unit)

\* line 171: the score of the blank canvas
InitialScore(raw) == Quantize(raw, InitUnit)

\* line 186: the score of a candidate's private canvas
NewScore(raw) == Quantize(raw, ScoreUnit)

\* Improves with >= for >: a candidate that only equals the score passes
Improves_NotStrict(newscore, score) == newscore >= score

\* line 188: the filter of filter_map
Improves(newscore, score) == newscore > score

\* (r * 2^k) mod ScoreUnit for 0 <= r < ScoreUnit, ten doublings at a time
\* while the product stays below 2^31
RECURSIVE DoubleMod(_, _)
DoubleMod(r, k) ==
    IF k = 0 THEN r
    ELSE IF k >= 10 THEN DoubleMod((1024 * r) % ScoreUnit, k - 10)
    ELSE DoubleMod((2 * r) % ScoreUnit, k - 1)

\* line 195: (x.1 * 1000000.0) as i32, where x.1 is the f64 nearest to
\* n / 1e6.  That f64 is q / 2^k with q the 53-bit rounding of n * 2^k / 1e6;
\* when q was rounded down by more than half an ulp of n, the product with
\* 1e6 rounds to an f64 below n and the cast truncates it to n - 1.  With
\* 2^m <= n < 2^(m+1) that happens exactly when n * 2^19 >= 1e6 * 2^m (so
\* that k = 71 - m) and 2^18 < (n * 2^k mod 1e6) < 1e6 / 2.
SortKey(n) ==
    IF n < 1 THEN n
    ELSE LET m   == Msb(n)
             top == IF m >= 13 THEN n >= 15625 * Pow2(m - 13)
                               ELSE n * Pow2(13 - m) >= 15625
             rem == DoubleMod(n % ScoreUnit, 71 - m)
         IN IF top /\ Pow2(18) < rem /\ 2 * rem < ScoreUnit THEN n - 1 ELSE n

\* the scores a candidate's canvas can have
NewScores == {NewScore(raw) : raw \in RawLevels \cup {RawUnit}}

\* line 195: the key of each of those scores
KeyTable == [n \in NewScores |-> SortKey(n)]

\* lines 182-194: the survivors <<index, newscore>>, in generation order
RECURSIVE FilterMap(_, _, _)
FilterMap(scores, score, i) ==
    IF i > Len(scores) THEN << >>
    ELSE IF Improves(scores[i], score)
         THEN << <<i, scores[i]>> >> \o FilterMap(scores, score, i + 1)
         ELSE FilterMap(scores, score, i + 1)

\* Iterator::max_by_key over a non-empty sequence of <<index, newscore>>:
\* among elements of equal key the last one is returned
RECURSIVE MaxByKey(_)
MaxByKey(xs) ==
    IF Len(xs) = 1 THEN xs[1]
    ELSE LET best == MaxByKey(SubSeq(xs, 1, Len(xs) - 1))
             x    == xs[Len(xs)]
         IN IF KeyTable[best[2]] > KeyTable[x[2]] THEN best ELSE x

\* lines 179-195: im_best_result, <<0, 0>> standing for None
BestResult(scores, score) ==
    LET kept == FilterMap(scores, score, 1)
    IN IF kept = << >> THEN <<0, 0>> ELSE MaxByKey(kept)

-----------------------------------------------------------------------------
(* main *)

\* line 83
target_score ==
    IF args.matchscore = << >> THEN 0
    ELSE args.matchscore[1] * (ScoreUnit \div PercentUnit)

\* line 84
target_shapes == args.shapes

\* Refuses with < for the first <=
Refuses_Strict == target_score < 0 /\ target_shapes <= 0

\* line 90
Refuses == target_score <= 0 /\ target_shapes <= 0

\* LoopCond with && for ||: the loop stops when either goal is met
LoopCond_EitherGoal ==
    (curr_score < target_score /\ success < target_shapes)
        /\ consec_fails < args.failmax

\* LoopCond with <= for the < of the shape count: one round too many
LoopCond_OneMore ==
    (curr_score < target_score \/ success <= target_shapes)
        /\ consec_fails < args.failmax

\* LoopCond with the total failure count for the consecutive one
LoopCond_TotalFailures ==
    (curr_score < target_score \/ success < target_shapes)
        /\ failure < args.failmax

\* LoopCond with <= for the < of the failure cap: the loop goes on at the cap
LoopCond_CapInclusive ==
    (curr_score < target_score \/ success < target_shapes)
        /\ consec_fails <= args.failmax

\* line 178
LoopCond ==
    (curr_score < target_score \/ success < target_shapes)
        /\ consec_fails < args.failmax

RECURSIVE SumOver(_, _)
SumOver(f, S) ==
    IF S = {} THEN 0
    ELSE LET p == CHOOSE q \in S : TRUE IN f[p] + SumOver(f, S \ {p})

\* lines 103-106: the 1x1 Triangle resize of a raster whose pixels all lie
\* symmetrically about its centre is the mean of its pixels, rounded
AvgColor(img) ==
    LET n == img.w * img.h
    IN (2 * SumOver(img.px, DOMAIN img.px) + n) \div (2 * n)

\* line 107
FromPixel(w, h, c) ==
    [w |-> w, h |-> h, px |-> [p \in (0..(w-1)) \X (0..(h-1)) |-> c]]

\* What rgba_blended_hybrid_compare may answer for a canvas it has not seen:
\* 1.0 for the target itself, any level otherwise
RawChoices(target, canvas) == IF canvas = target THEN {RawUnit} ELSE RawLevels

NoRound ==
    [before |-> 0, canvas |-> NoImage, batch |-> << >>, scores |-> << >>,
     won |-> 0]

SzIdle == [draws |-> << >>, size |-> 0, size_rotated |-> 0, paste_offset |-> 0]

Init ==
    /\ args \in ArgsSet
    /\ source_image \in Sources
    /\ images = OneFragment
    /\ pc = "start"
    /\ input_image = NoImage
    /\ avgcolor = 0
    /\ dest_image = NoImage
    /\ scorer = << >>
    /\ curr_score = 0
    /\ success = 0
    /\ failure = 0
    /\ consec_fails = 0
    /\ placed = << >>
    /\ last = NoRound
    /\ svg_cache = << >>
    /\ output = << >>
    /\ next_img = 1
    /\ written = {}
    /\ sz = SzIdle

\* lines 81-93
Startup ==
    /\ pc = "start"
    /\ pc' = IF Refuses THEN "exit" ELSE "load"
    /\ UNCHANGED << args, source_image, images, input_image, avgcolor, dest_image,
                    scorer, curr_score, success, failure, consec_fails, placed,
                    last, svg_cache, output, next_img, written, sz >>

\* lines 95-176
Load ==
    /\ pc = "load"
    /\ input_image' = source_image
    /\ avgcolor' = AvgColor(source_image)
    /\ LET blank == FromPixel(source_image.w, source_image.h,
                              AvgColor(source_image))
       IN /\ dest_image' = blank
          /\ \E raw \in RawChoices(source_image, blank) :
                /\ scorer' = (blank :> raw)
                /\ curr_score' = InitialScore(raw)
    /\ success' = 0
    /\ failure' = 0
    /\ consec_fails' = 0
    /\ placed' = << >>
    /\ pc' = "loop"
    /\ UNCHANGED << args, source_image, images, last, svg_cache, output,
                    next_img, written, sz >>

\* DestTmp on one scratch canvas shared by the candidates of a round: each
\* candidate is overlaid on what the candidates before it left
RECURSIVE DestTmp_Shared(_, _, _)
DestTmp_Shared(canvas, batch, i) ==
    IF i = 0 THEN canvas
    ELSE Overlay(DestTmp_Shared(canvas, batch, i - 1), batch[i])

\* lines 184-185: a clone of the canvas with candidate i overlaid
DestTmp(canvas, batch, i) == Overlay(canvas, batch[i])

\* Push at the front of the vector
Push_Front(history, settings) == << settings >> \o history

\* line 202: placed.push
Push(history, settings) == Append(history, settings)

\* lines 178-213: one iteration of the while loop
Round ==
    /\ pc = "loop"
    /\ LoopCond
    /\ \E batch \in [1..args.imgcnt -> Candidates] :
        LET desttmp(i) == DestTmp(dest_image, batch, i)
            fresh == {desttmp(i) : i \in 1..args.imgcnt} \ DOMAIN scorer
        IN \E answers \in [fresh -> RawLevels \cup {RawUnit}] :
            /\ \A c \in fresh : answers[c] \in RawChoices(input_image, c)
            /\ scorer' = scorer @@ answers
            /\ LET scores == [i \in 1..args.imgcnt |->
                                 NewScore((scorer @@ answers)[desttmp(i)])]
                   im_best_result == BestResult(scores, curr_score)
               IN IF im_best_result[1] # 0
                  THEN LET im == batch[im_best_result[1]]
                       IN /\ curr_score' = im_best_result[2]
                          /\ dest_image' = Overlay(dest_image, im)
                          /\ placed' = Push(placed, im.settings)
                          /\ success' = success + 1
                          /\ consec_fails' = 0
                          /\ failure' = failure
                          /\ last' = [before |-> curr_score,
                                      canvas |-> dest_image, batch |-> batch,
                                      scores |-> scores,
                                      won |-> im_best_result[1]]
                  ELSE /\ failure' = failure + 1
                       /\ consec_fails' = consec_fails + 1
                       /\ last' = [before |-> curr_score,
                                   canvas |-> dest_image, batch |-> batch,
                                   scores |-> scores, won |-> 0]
                       /\ UNCHANGED << curr_score, dest_image, placed, success >>
    /\ UNCHANGED << args, source_image, images, pc, input_image, avgcolor, svg_cache,
                    output, next_img, written, sz >>

\* lines 178, 215-221: the loop condition is false; the document is opened
LoopExit ==
    /\ pc = "loop"
    /\ ~LoopCond
    /\ pc' = "export"
    /\ output' = << [kind |-> "svg", width |-> input_image.w,
                     height |-> input_image.h, fill |-> avgcolor] >>
    /\ svg_cache' = << >>
    /\ next_img' = 1
    /\ UNCHANGED << args, source_image, images, input_image, avgcolor, dest_image,
                    scorer, curr_score, success, failure, consec_fails, placed,
                    last, written, sz >>

\* SymbolFor without the contains_key test: a definition per placement
SymbolFor_Always(cache, img) ==
    << [kind |-> "symbol", id |-> Cardinality(DOMAIN cache),
        src |-> img.src_svg] >>

\* lines 223-245: the symbol definition, when the source is not cached
SymbolFor(cache, img) ==
    IF img.src_svg \in DOMAIN cache THEN << >>
    ELSE << [kind |-> "symbol", id |-> Cardinality(DOMAIN cache),
             src |-> img.src_svg] >>

\* line 244
CacheWith(cache, img) ==
    IF img.src_svg \in DOMAIN cache THEN cache
    ELSE cache @@ (img.src_svg :> Cardinality(DOMAIN cache))

\* lines 246-259
UseFor(cache, img) ==
    [kind |-> "use",
     x |-> img.center_x - (img.size \div 2),
     y |-> img.center_y - (img.size \div 2),
     rotation |-> img.rotation,
     size |-> img.size,
     color |-> img.color,
     href |-> cache[img.src_svg]]

\* lines 222-260: one iteration of `for img in placed`
ExportStep ==
    /\ pc = "export"
    /\ next_img <= Len(placed)
    /\ LET img == placed[next_img]
       IN /\ svg_cache' = CacheWith(svg_cache, img)
          /\ output' = output \o SymbolFor(svg_cache, img)
                              \o << UseFor(svg_cache', img) >>
    /\ next_img' = next_img + 1
    /\ UNCHANGED << args, source_image, images, pc, input_image, avgcolor, dest_image,
                    scorer, curr_score, success, failure, consec_fails, placed,
                    last, written, sz >>

\* lines 261-264
Finish ==
    /\ pc = "export"
    /\ next_img > Len(placed)
    /\ output' = Append(output, [kind |-> "end"])
    /\ written' = {"svg", "png"}
    /\ pc' = "done"
    /\ UNCHANGED << args, source_image, images, input_image, avgcolor, dest_image,
                    scorer, curr_score, success, failure, consec_fails, placed,
                    last, svg_cache, next_img, sz >>

Next == Startup \/ Load \/ Round \/ LoopExit \/ ExportStep \/ Finish

Spec == Init /\ [][Next]_vars

-----------------------------------------------------------------------------
(* Properties of the search loop *)

AfterLoop == pc \in {"export", "done"}

GoalsUnmet == curr_score < target_score \/ success < target_shapes

\* C1: a round is started exactly when (current score < target score or
\* success count < target shape count) and consecutive failures < failmax,
\* otherwise the loop is left without a round; and whenever the loop has
\* stopped with consecutive failures < failmax, both goals are met.
C1_LoopCondition ==
    /\ [][ pc = "loop" =>
             IF GoalsUnmet /\ consec_fails < args.failmax
             THEN pc' = "loop" /\ success' + failure' = success + failure + 1
             ELSE pc' = "export" /\ success' + failure' = success + failure ]_vars
    /\ [](AfterLoop /\ consec_fails < args.failmax
             => curr_score >= target_score /\ success >= target_shapes)

\* the loop has stopped below the failure cap, after rounds of both kinds,
\* with a score goal and a shape goal configured
C1_Witness ==
    /\ AfterLoop
    /\ consec_fails < args.failmax
    /\ success > 0 /\ failure > 0
    /\ target_score > 0 /\ target_shapes > 0

\* C2: an accepted round strictly increases the current score, and no round
\* decreases it.
C2_ScoreMonotone ==
    [][ pc = "loop" =>
          /\ (success' = success + 1 => curr_score' > curr_score)
          /\ curr_score' >= curr_score ]_vars

\* two rounds have been accepted and a round has failed
C2_Witness == success >= 2 /\ failure >= 1 /\ last.won # 0

\* C3: with target shape count N >= 1, target score 0 and the failure cap
\* not reached, the loop is left with exactly N placements: the success
\* counter and the length of the history are N, and never exceed N before.
C3_ExactlyN ==
    (pc \in {"loop", "export", "done"} /\ target_score = 0 /\ target_shapes >= 1)
        => /\ success <= target_shapes
           /\ Len(placed) = success
           /\ (AfterLoop /\ consec_fails < args.failmax
                  => success = target_shapes /\ Len(placed) = target_shapes)

\* the run has ended with N = 2 placements, below the failure cap
C3_Witness ==
    /\ pc = "done" /\ target_score = 0 /\ target_shapes >= 2
    /\ consec_fails < args.failmax
    /\ success = target_shapes /\ failure > 0

\* C4: with failmax = K the loop is left at the round boundary right after K
\* consecutive failed rounds, whatever the goals; the consecutive count is
\* reset by an accepted round and is what stops the loop (the loop is left
\* with a goal unmet only when it equals K); with K = 0 no round is run.
C4_FailureCap ==
    /\ [](consec_fails <= args.failmax)
    /\ [](args.failmax = 0 => success + failure = 0)
    /\ [][ pc = "loop" =>
             /\ (consec_fails = args.failmax
                    => pc' = "export" /\ success' + failure' = success + failure)
             /\ (success' = success + 1 => consec_fails' = 0)
             /\ (failure' = failure + 1 => consec_fails' = consec_fails + 1)
             /\ (pc' = "export" /\ GoalsUnmet => consec_fails = args.failmax) ]_vars

\* the loop has been left by the cap with both goals unmet, after more failed
\* rounds in total than the cap
C4_Witness ==
    /\ AfterLoop
    /\ consec_fails = args.failmax
    /\ failure > args.failmax
    /\ curr_score < target_score /\ success < target_shapes

\* C5: with target score <= 0 and target shape count <= 0 the program stops
\* at startup: no image is loaded, no round is run, nothing is placed and
\* nothing is written.
C5_Refusal ==
    (target_score <= 0 /\ target_shapes <= 0)
        => /\ pc \in {"start", "exit"}
           /\ input_image = NoImage /\ dest_image = NoImage
           /\ success + failure = 0
           /\ placed = << >>
           /\ output = << >> /\ written = {}

\* the program has refused to run
C5_Witness == pc = "exit" /\ target_score <= 0 /\ target_shapes <= 0

-----------------------------------------------------------------------------
(* The size of the stamp buffer, as a function of the size drawn *)

IdleArgs == [matchscore |-> << >>, shapes |-> 0, failmax |-> 0, imgcnt |-> 1]

InitSize ==
    /\ sz \in {[SzIdle EXCEPT !.size = n] : n \in 1..MaxSize}
    /\ args = IdleArgs
    /\ source_image = NoImage
    /\ images = OneFragment
    /\ pc = "gen"
    /\ input_image = NoImage
    /\ avgcolor = 0
    /\ dest_image = NoImage
    /\ scorer = << >>
    /\ curr_score = 0
    /\ success = 0
    /\ failure = 0
    /\ consec_fails = 0
    /\ placed = << >>
    /\ last = NoRound
    /\ svg_cache = << >>
    /\ output = << >>
    /\ next_img = 1
    /\ written = {}

\* lines 139-146 for the rand_size held in sz
SizeStep ==
    /\ pc = "gen"
    /\ sz.size_rotated = 0
    /\ sz' = [sz EXCEPT
                !.size_rotated = RandSizeRotated(sz.size),
                !.paste_offset = PasteOffset(sz.size, RandSizeRotated(sz.size))]
    /\ UNCHANGED engine_vars

NextSize == SizeStep

SpecSize == InitSize /\ [][NextSize]_vars

\* the least r with r * r >= 2 * n * n, that is ceil(sqrt(2) * n)
CeilSqrt2(n) ==
    LET r == Isqrt(2 * n * n)
    IN IF r * r = 2 * n * n THEN r ELSE r + 1

\* C8: for every size >= 1, size_rotated >= size, size_rotated has the
\* parity of size, and size_rotated is ceil(sqrt(2) * size), plus 1 exactly
\* when that value's parity differs from the parity of size.
C8_SizeRotated ==
    sz.size_rotated # 0 =>
        /\ sz.size_rotated >= sz.size
        /\ sz.size_rotated % 2 = sz.size % 2
        /\ sz.size_rotated =
              IF CeilSqrt2(sz.size) % 2 # sz.size % 2
              THEN CeilSqrt2(sz.size) + 1 ELSE CeilSqrt2(sz.size)

\* C15: the size x size silhouette is placed in the stamp buffer at offset
\* floor(size_rotated / 2) - floor(size / 2) on each axis; for every
\* size >= 1 the region lies inside the size_rotated x size_rotated buffer
\* (0 <= offset and offset + size <= size_rotated) and is centred (the
\* margin before it equals the margin after it).
C15_PasteOffset ==
    sz.size_rotated # 0 =>
        /\ sz.paste_offset = (sz.size_rotated \div 2) - (sz.size \div 2)
        /\ 0 <= sz.paste_offset
        /\ sz.paste_offset + sz.size <= sz.size_rotated
        /\ sz.paste_offset = sz.size_rotated - (sz.paste_offset + sz.size)

\* the offset has been computed for an odd size whose size_rotated was
\* raised by the parity adjustment
C15_Witness ==
    /\ sz.size = 5 /\ sz.size_rotated = 9 /\ sz.paste_offset = 2

-----------------------------------------------------------------------------
(* gen_rand_im, as a function of its draws *)

\* a w x h raster of three colours
Ramp(w, h) ==
    [w |-> w, h |-> h,
     px |-> [p \in (0..(w-1)) \X (0..(h-1)) |-> (p[1] + p[2]) % 3]]

\* the closure is about to be called over a target of every extent
InitGen ==
    /\ source_image \in {Ramp(w, h) : w, h \in 1..MaxDim}
    /\ images \in Libraries
    /\ input_image = source_image
    /\ avgcolor = AvgColor(source_image)
    /\ dest_image = FromPixel(source_image.w, source_image.h, avgcolor)
    /\ args = [matchscore |-> << >>, shapes |-> 1, failmax |-> 1, imgcnt |-> 1]
    /\ pc = "gen_rand_im"
    /\ scorer = (dest_image :> Min(RawLevels))
    /\ curr_score = InitialScore(Min(RawLevels))
    /\ success = 0
    /\ failure = 0
    /\ consec_fails = 0
    /\ placed = << >>
    /\ last = NoRound
    /\ svg_cache = << >>
    /\ output = << >>
    /\ next_img = 1
    /\ written = {}
    /\ sz = SzIdle

\* lines 131-169: one call of the closure, for one outcome of its draws;
\* the ImageObj returned is kept in last.batch
GenStep ==
    /\ pc = "gen_rand_im"
    /\ \E im_index \in 1..Len(images),
          rand_center_x \in 0..(input_image.w - 1),
          rand_center_y \in 0..(input_image.h - 1),
          draws \in [1..SizeDraws ->
                       0..(Max2(input_image.w, input_image.h) - 1)],
          rand_rot \in Rotations :
          LET obj == GenRandIm(im_index, rand_center_x, rand_center_y,
                               RandSize(draws), rand_rot)
          IN /\ sz' = [draws |-> draws,
                       size |-> RandSize(draws),
                       size_rotated |-> obj.im.side,
                       paste_offset |-> obj.im.off]
             /\ last' = [NoRound EXCEPT !.batch = << obj >>]
    /\ pc' = "returned"
    /\ UNCHANGED << args, source_image, images, input_image, avgcolor, dest_image,
                    scorer, curr_score, success, failure, consec_fails, placed,
                    svg_cache, output, next_img, written >>

NextGen == GenStep

SpecGen == InitGen /\ [][NextGen]_vars

\* C16: a candidate returned by the generator has size >= 1: its size is
\* the minimum of the 4 draws from [0, max(w, h)), or 1 when that minimum is
\* 0, so that 1 <= size <= max(1, max(w, h) - 1); and its centre lies on the
\* canvas, 0 <= x < w and 0 <= y < h.
C16_CandidateBounds ==
    pc = "returned" =>
        LET s  == last.batch[1].settings
            lo == Min({sz.draws[i] : i \in 1..SizeDraws})
            m  == Max2(input_image.w, input_image.h)
        IN /\ Len(sz.draws) = SizeDraws
           /\ \A i \in 1..SizeDraws : sz.draws[i] \in 0..(m - 1)
           /\ s.size = (IF lo = 0 THEN 1 ELSE lo)
           /\ s.size = last.batch[1].im.size
           /\ 1 <= s.size /\ s.size <= Max2(1, m - 1)
           /\ 0 <= s.center_x /\ s.center_x < input_image.w
           /\ 0 <= s.center_y /\ s.center_y < input_image.h

\* a candidate of size 1 has been returned for draws whose minimum is 0, on
\* a canvas that allows size 2
C16_Witness ==
    /\ pc = "returned"
    /\ Max2(input_image.w, input_image.h) = 3
    /\ \E i \in 1..SizeDraws : sz.draws[i] = 0
    /\ \E i \in 1..SizeDraws : sz.draws[i] = 2
    /\ last.batch[1].settings.size = 1
    /\ last.batch[1].settings.center_x = input_image.w - 1

-----------------------------------------------------------------------------
(* Properties of a round's selection *)

Flat(img) == \A p, q \in DOMAIN img.px : img.px[p] = img.px[q]

\* a flat target, target shapes = 1, and a failure cap that lets rounds run
FlatRun == Flat(source_image) /\ args.shapes = 1 /\ args.failmax >= 1

\* the score of the blank average-colour canvas (line 171)
BlankScore ==
    InitialScore(scorer[FromPixel(input_image.w, input_image.h, avgcolor)])

\* C6 as stated: for a flat target and target shapes = 1 the loop is left
\* after exactly one accepted round, with a final score above the score of
\* the blank canvas and a history of length 1.
C6_Original ==
    (FlatRun /\ AfterLoop)
        => /\ success = 1
           /\ curr_score > BlankScore
           /\ Len(placed) = 1

\* C6 as amended: for a flat target and target shapes = 1 no round is ever
\* accepted: the blank canvas is the target and scores 1.0, the score stays
\* there, the history stays empty, and the loop is left by the failure cap
\* after failmax failed rounds.
C6_FlatTarget ==
    (FlatRun /\ pc \in {"loop", "export", "done"})
        => /\ success = 0
           /\ placed = << >>
           /\ dest_image = input_image
           /\ curr_score = ScoreUnit /\ curr_score = BlankScore
           /\ (AfterLoop => failure = args.failmax
                            /\ consec_fails = args.failmax)

\* the run on a flat target has ended, after failmax failed rounds
C6_Witness ==
    /\ FlatRun /\ pc = "done"
    /\ failure = args.failmax /\ success = 0
    /\ Len(last.scores) = args.imgcnt

Perms(n) == {p \in [1..n -> 1..n] : \A i, j \in 1..n : p[i] = p[j] => i = j}

\* the score committed by the latest round, 0 when it failed
WinningScore == IF last.won = 0 THEN 0 ELSE last.scores[last.won]

\* C7: for the canvas and score a round started from, every permutation of
\* its candidates gives the same winning score and the same commit/fail
\* outcome.
C7_OrderIndependent ==
    \A p \in Perms(Len(last.scores)) :
        LET permuted == [i \in 1..Len(last.scores) |-> last.scores[p[i]]]
        IN BestResult(permuted, last.before)[2] = WinningScore

\* the candidates of the latest round that beat the score it started from
Beating == {i \in 1..Len(last.scores) : last.scores[i] > last.before}

\* C10: the candidate committed by a round has the maximum score among the
\* candidates that strictly exceed the current score; none at or below it
\* is committed; a round commits exactly when some candidate exceeds it.
C10_CommitsMaximum ==
    /\ (last.won # 0 <=> Beating # {})
    /\ last.won # 0 =>
          /\ last.won \in Beating
          /\ \A i \in Beating : last.scores[i] <= last.scores[last.won]

-----------------------------------------------------------------------------
(* Properties of a round's effects *)

\* the pixels of the size x size square centred on a placement's centre
InSquare(p, s) ==
    /\ s.center_x - (s.size \div 2) <= p[1]
    /\ p[1] < s.center_x - (s.size \div 2) + s.size
    /\ s.center_y - (s.size \div 2) <= p[2]
    /\ p[2] < s.center_y - (s.size \div 2) + s.size

\* a canvas with the square of placement s painted in its colour
Stamped(canvas, s) ==
    [canvas EXCEPT !.px =
        [p \in DOMAIN canvas.px |->
            IF InSquare(p, s) THEN s.color ELSE canvas.px[p]]]

\* the step is an iteration of the while loop
RoundStep == pc = "loop" /\ LoopCond

\* C11: an accepted round overlays the winner's stamp on the canvas, appends
\* the winner's placement to the history, sets the current score to the
\* winner's score, adds 1 to the success counter and resets the
\* consecutive-failure counter; the failure counter and everything else
\* (arguments, target, average colour, export state) are unchanged.
C11_CommitEffects ==
    [][ (RoundStep /\ success' # success) =>
          /\ last'.won \in 1..args.imgcnt
          /\ LET im == last'.batch[last'.won]
             IN /\ dest_image' = Stamped(dest_image, im.settings)
                /\ placed' = Append(placed, im.settings)
                /\ curr_score' = last'.scores[last'.won]
          /\ success' = success + 1
          /\ consec_fails' = 0
          /\ failure' = failure
          /\ UNCHANGED << args, source_image, images, pc, input_image, avgcolor,
                          svg_cache, output, next_img, written >> ]_vars

\* a round of two candidates has been accepted after failed rounds, and its
\* stamp changed the canvas
C11_Witness ==
    /\ pc = "loop"
    /\ last.won # 0 /\ Len(last.batch) = 2
    /\ success >= 1 /\ failure >= 1 /\ consec_fails = 0
    /\ dest_image # last.canvas
    /\ placed[Len(placed)] = last.batch[last.won].settings

\* no candidate of the round just made beats the score it started from
NoneBeats == \A i \in 1..Len(last.scores) : last.scores[i] <= last.before

\* C12: a round fails exactly when none of its candidates has a score
\* strictly above the current score; a failed round adds 1 to the failure
\* counter and 1 to the consecutive-failure counter and leaves the canvas,
\* the current score, the history and the success counter unchanged.
C12_FailEffects ==
    [][ RoundStep =>
          /\ last'.before = curr_score
          /\ Len(last'.scores) = args.imgcnt
          /\ (NoneBeats' <=> failure' # failure)
          /\ (failure' # failure =>
                 /\ failure' = failure + 1
                 /\ consec_fails' = consec_fails + 1
                 /\ UNCHANGED << dest_image, curr_score, placed, success >>
                 /\ UNCHANGED << args, source_image, images, pc, input_image,
                                 avgcolor, svg_cache, output, next_img,
                                 written >>) ]_vars

\* a round of two candidates has failed after an accepted round, one of its
\* candidates scoring exactly the current score
C12_Witness ==
    /\ pc = "loop"
    /\ last.won = 0 /\ Len(last.batch) = 2
    /\ success >= 1 /\ failure >= 2 /\ consec_fails = 1
    /\ \E i \in 1..2 : last.scores[i] = curr_score
    /\ dest_image = last.canvas

\* C13: every candidate of a round is scored on the canvas the round
\* started from with that candidate's stamp alone, so its score is a
\* function of that canvas and of the candidate, whatever the other
\* candidates and their order; and a round changes the canvas at most once,
\* to the start canvas with the winner's stamp alone.
C13_PrivateCopies ==
    [][ RoundStep =>
          /\ last'.canvas = dest_image
          /\ Len(last'.batch) = args.imgcnt
          /\ \A i \in 1..args.imgcnt :
                /\ last'.batch[i] \in Candidates
                /\ Stamped(dest_image, last'.batch[i].settings) \in DOMAIN scorer'
                /\ last'.scores[i] =
                      NewScore(scorer'[Stamped(dest_image,
                                               last'.batch[i].settings)])
          /\ \A c \in DOMAIN scorer : scorer'[c] = scorer[c]
          /\ dest_image' =
                IF last'.won = 0 THEN dest_image
                ELSE Stamped(dest_image, last'.batch[last'.won].settings) ]_vars

\* a round of two candidates with different stamps has committed the first
\* one, and the canvas shows nothing of the second
C13_Witness ==
    /\ pc = "loop"
    /\ Len(last.batch) = 2 /\ last.won = 1
    /\ Stamped(last.canvas, last.batch[1].settings)
          # Stamped(last.canvas, last.batch[2].settings)
    /\ Stamped(last.canvas, last.batch[2].settings) # last.canvas
    /\ dest_image = Stamped(last.canvas, last.batch[1].settings)

\* C14: a candidate whose private canvas has the raw similarity of the
\* current canvas (a stamp that changes no pixel, for one) is never the one
\* committed, in the first round as in every later round; this is what
\* quantizing the current score and the candidates' scores to one precision,
\* from the initial score onward, gives.
C14_SameQuantization ==
    [][ RoundStep =>
          \A i \in 1..Len(last'.batch) :
             scorer'[Stamped(dest_image, last'.batch[i].settings)]
                   = scorer[dest_image]
                => last'.won # i ]_vars

IsPrefix(a, b) == Len(a) <= Len(b) /\ SubSeq(b, 1, Len(a)) = a

\* C17: the history is append-only and in commit order: its length is the
\* success counter, no step changes it but an accepted round, which appends
\* the winner's placement at its end (so every earlier history is a prefix
\* of every later one and the i-th entry is the placement of the i-th
\* accepted round), and the export consumes it from the first entry to the
\* last, one reference per entry.
C17_AppendOnly ==
    /\ [](pc \in {"loop", "export", "done"} => Len(placed) = success)
    /\ [][ /\ IsPrefix(placed, placed')
           /\ (placed' # placed =>
                  /\ RoundStep /\ success' = success + 1
                  /\ placed' = Append(placed,
                                      last'.batch[last'.won].settings))
           /\ (pc = "export" /\ pc' = "export" =>
                  /\ next_img' = next_img + 1
                  /\ next_img <= Len(placed)
                  /\ output'[Len(output')] = UseFor(svg_cache', placed[next_img])
                  /\ Len(SelectSeq(output', LAMBDA e : e.kind = "use"))
                        = next_img)
           /\ (pc = "export" /\ pc' = "done" => next_img = Len(placed) + 1)
         ]_vars

\* two different placements have been committed and exported
C17_Witness ==
    /\ pc = "done"
    /\ success = 2 /\ Len(placed) = 2
    /\ placed[1] # placed[2]
    /\ next_img = 3
    /\ Len(SelectSeq(output, LAMBDA e : e.kind = "use")) = 2

-----------------------------------------------------------------------------
(* Termination *)

\* the runs with one candidate per round
InitLive == Init /\ args.imgcnt = 1

\* main is sequential code: whenever a step is possible, one is taken
SpecLive == InitLive /\ [][Next]_vars /\ WF_vars(Next)

\* what the loop can still do: the accepted rounds left below a score of
\* 1, each with its failed rounds, then the failed rounds left now
Rank ==
    IF pc # "loop" THEN 0
    ELSE (ScoreUnit - curr_score) * (MaxFailmax + 2)
            + (args.failmax - consec_fails) + 1

\* C18: every run ends, whatever the arguments, the input and the draws:
\* an accepted round strictly increases a quantized score that is at most
\* 1, and a round is accepted only after at most failmax - 1 failed rounds
\* in a row, the loop being left when that count reaches failmax.
C18_Terminates ==
    /\ <>(pc \in {"exit", "done"})
    /\ [](curr_score <= ScoreUnit /\ consec_fails <= args.failmax)
    /\ [](Rank >= 0)
    /\ [][ pc = "loop" => Rank' < Rank ]_vars
    /\ [][ RoundStep =>
             /\ consec_fails <= args.failmax - 1
             /\ (success' # success =>
                    curr_score' > curr_score /\ consec_fails' = 0)
             /\ (success' = success =>
                    curr_score' = curr_score
                       /\ consec_fails' = consec_fails + 1) ]_vars

\* a run has ended after two accepted rounds and two failed rounds
C18_Witness ==
    /\ pc = "done"
    /\ success >= 2 /\ failure >= 2
    /\ args.failmax = MaxFailmax /\ args.imgcnt = 1

-----------------------------------------------------------------------------
(* The selection of a round, as a function of the candidates' scores *)

\* the scores the loop can hold: an initial score or a candidate's score
CurrScores == {InitialScore(raw) : raw \in RawLevels \cup {RawUnit}} \cup NewScores

\* a round is about to select among the scores of its candidates
InitSelect ==
    /\ last \in {[NoRound EXCEPT !.before = b, !.scores = sc] :
                    b \in CurrScores,
                    sc \in UNION {[1..n -> NewScores] : n \in 1..MaxBatch}}
    /\ pc = "select"
    /\ args = IdleArgs
    /\ source_image = NoImage
    /\ images = OneFragment
    /\ input_image = NoImage
    /\ avgcolor = 0
    /\ dest_image = NoImage
    /\ scorer = << >>
    /\ curr_score = last.before
    /\ success = 0
    /\ failure = 0
    /\ consec_fails = 0
    /\ placed = << >>
    /\ svg_cache = << >>
    /\ output = << >>
    /\ next_img = 1
    /\ written = {}
    /\ sz = SzIdle

\* lines 179-195 on the scores held in last
SelectStep ==
    /\ pc = "select"
    /\ last' = [last EXCEPT !.won = BestResult(last.scores, curr_score)[1]]
    /\ pc' = "selected"
    /\ UNCHANGED << args, source_image, images, input_image, avgcolor, dest_image,
                    scorer, curr_score, success, failure, consec_fails, placed,
                    svg_cache, output, next_img, written, sz >>

NextSelect == SelectStep

SpecSelect == InitSelect /\ [][NextSelect]_vars

\* the candidates that beat the current score with the maximum score
TopScorers == {i \in Beating : \A j \in Beating : last.scores[j] <= last.scores[i]}

\* C19: when several candidates that beat the current score share the
\* maximum score, the one with the highest index among them is selected.
C19_TieBreak ==
    (pc = "selected" /\ Cardinality(TopScorers) >= 2)
        => /\ last.won \in TopScorers
           /\ \A i \in TopScorers : i <= last.won

-----------------------------------------------------------------------------
(* Runs without a round *)

ZeroRounds == success + failure = 0

\* C20: the loop is left without a round exactly when failmax = 0, or the
\* score of the blank canvas is at least the target score and the target
\* shape count is 0; the canvas is then the blank average-colour canvas, the
\* history is empty and nothing is exported but the frame of the document;
\* the startup guard stops only runs whose target score and shape count are
\* both non-positive, so runs without a round pass it.
C20_ZeroRounds ==
    /\ (pc = "exit" => target_score <= 0 /\ target_shapes <= 0)
    /\ AfterLoop =>
          /\ (ZeroRounds <=>
                 \/ args.failmax = 0
                 \/ (BlankScore >= target_score /\ target_shapes = 0))
          /\ (ZeroRounds =>
                 /\ dest_image = FromPixel(input_image.w, input_image.h,
                                           avgcolor)
                 /\ placed = << >>
                 /\ \A q \in 1..Len(output) :
                       output[q].kind \in {"svg", "end"})

\* a run with a positive target score, no shape goal and a positive failure
\* cap has ended without a round, on a target that is not flat
C20_Witness ==
    /\ pc = "done" /\ ZeroRounds
    /\ args.failmax > 0 /\ target_score > 0 /\ target_shapes = 0
    /\ ~Flat(input_image)
    /\ dest_image # input_image
    /\ Len(output) = 2

-----------------------------------------------------------------------------
(* The export, as a function of the placement history *)

\* every history of at most MaxPlaced placements that rounds can commit
Histories ==
    UNION { [1..n -> {c.settings : c \in Candidates}] : n \in 0..MaxPlaced }

\* the state in which the while loop is left with both goals met, for a
\* history of placements
InitExport ==
    /\ source_image = MkImage(1, 2, << <<2>>, <<0>> >>)
    /\ images = TwoFragments
    /\ input_image = source_image
    /\ avgcolor = AvgColor(source_image)
    /\ dest_image = input_image
    /\ scorer = (dest_image :> RawUnit)
    /\ curr_score = ScoreUnit
    /\ placed \in Histories
    /\ success = Len(placed)
    /\ args = [matchscore |-> <<100>>, shapes |-> Len(placed),
               failmax |-> 1, imgcnt |-> 1]
    /\ failure = 0
    /\ consec_fails = 0
    /\ last = NoRound
    /\ pc = "loop"
    /\ svg_cache = << >>
    /\ output = << >>
    /\ next_img = 1
    /\ written = {}
    /\ sz = SzIdle

NextExport == LoopExit \/ ExportStep \/ Finish

SpecExport == InitExport /\ [][NextExport]_vars

-----------------------------------------------------------------------------
(* Properties of the export *)

IsUse(e) == e.kind = "use"

IsSymbol(e) == e.kind = "symbol"

Uses == SelectSeq(output, IsUse)

Symbols == SelectSeq(output, IsSymbol)

\* the placements the export loop has consumed
Exported == 1..(next_img - 1)

FirstUse(src) == Min({i \in 1..Len(placed) : placed[i].src_svg = src})

\* C9: the export emits one symbol definition per distinct source of the
\* placements consumed, immediately before the reference of the first
\* placement with that source; ids are 0, 1, 2, ... in first-encounter
\* order; one reference is emitted per placement, in history order, to the
\* id of that placement's source.
C9_Export ==
    pc \in {"export", "done"} =>
        /\ Len(Uses) = next_img - 1
        /\ {Symbols[j].src : j \in 1..Len(Symbols)}
              = {placed[i].src_svg : i \in Exported}
        /\ Len(Symbols) = Cardinality({placed[i].src_svg : i \in Exported})
        /\ \A j \in 1..Len(Symbols) : Symbols[j].id = j - 1
        /\ \A j, k \in 1..Len(Symbols) :
              j < k => FirstUse(Symbols[j].src) < FirstUse(Symbols[k].src)
        /\ \A i \in Exported :
              /\ Uses[i].size = placed[i].size
              /\ Uses[i].color = placed[i].color
              /\ Uses[i].x = placed[i].center_x - (placed[i].size \div 2)
              /\ Uses[i].y = placed[i].center_y - (placed[i].size \div 2)
              /\ \E j \in 1..Len(Symbols) :
                    /\ Symbols[j].src = placed[i].src_svg
                    /\ Symbols[j].id = Uses[i].href
        /\ \A q \in 1..Len(output) :
              IsSymbol(output[q]) =>
                 /\ q < Len(output)
                 /\ IsUse(output[q + 1])
                 /\ output[q + 1].href = output[q].id
                 /\ Len(SelectSeq(SubSeq(output, 1, q), IsUse))
                       = FirstUse(output[q].src) - 1

\* a history of three placements over two sources, the first source used
\* again after the second, has been exported
C9_Witness ==
    /\ pc = "done"
    /\ Len(placed) >= 3
    /\ placed[1].src_svg # placed[2].src_svg
    /\ placed[3].src_svg = placed[1].src_svg
    /\ Len(Symbols) = 2 /\ Len(Uses) = Len(placed)

====
